---- MODULE Spec2Model ----
(***************************************************************************)
(* Model of scribe/doc_reader.py: the page pipeline                        *)
(*   get_flat_spans_with_lines -> extract_headers_from_bold ->             *)
(*   slice_company_blocks -> extract_contacts_from_block -> rollups,       *)
(* together with the pure helpers dedup_preserve_order and the regular     *)
(* expressions of the module.  Texts are TLA+ strings handled character by *)
(* character: Len, SubSeq and \o act on strings as they do on sequences.   *)
(***************************************************************************)
EXTENDS Integers, Sequences, FiniteSets, TLC

(***************************************************************************)
(* Characters and Python string primitives                                 *)
(*                                                                         *)
(* A text is a string over the code points 0..255 (ASCII and Latin-1), the *)
(* characters a string can hold.  The str methods and the \s, \w, \b and   *)
(* IGNORECASE of the str patterns are the Unicode-aware ones of Python,    *)
(* given here for these code points.                                       *)
(***************************************************************************)
UpperAlpha == "ABCDEFGHIJKLMNOPQRSTUVWXYZ"
LowerAlpha == "abcdefghijklmnopqrstuvwxyz"
DigitChars == "0123456789"
\* The Latin-1 characters str.lower() changes, and what it makes of them.
Latin1Upper == "ÀÁÂÃÄÅÆÇÈÉÊËÌÍÎÏÐÑÒÓÔÕÖØÙÚÛÜÝÞ"
Latin1Lower == "àáâãäåæçèéêëìíîïðñòóôõöøùúûüýþ"
\* The Latin-1 characters \w matches: letters and the numeric characters.
Latin1Word == "ª²³µ¹º¼½¾ÀÁÂÃÄÅÆÇÈÉÊËÌÍÎÏÐÑÒÓÔÕÖØÙÚÛÜÝÞßàáâãäåæçèéêëìíîïðñòóôõöøùúûüýþÿ"

CharsOf(s) == { SubSeq(s, k, k) : k \in 1..Len(s) }

UpperSet == CharsOf(UpperAlpha)
LowerSet == CharsOf(LowerAlpha)
DigitSet == CharsOf(DigitChars)
LetterSet == UpperSet \cup LowerSet

\* Python's \s and the characters str.strip() removes: \t \n \x0b \x0c \r
\* \x1c \x1d \x1e \x1f, the space, \x85 (next line) and \xa0 (no-break space).
SpaceSet == {" ", "\t", "\n", "\r", "\f", "", "", "", "", "",
             "", " "}
NewlineSet == {"\n", "\r"}

\* Python's \w.
WordSet == LetterSet \cup DigitSet \cup {"_"} \cup CharsOf(Latin1Word)

\* s[i-1] in Python, "" when the index is outside the string.
Char(s, i) == IF i >= 1 /\ i <= Len(s) THEN SubSeq(s, i, i) ELSE ""

\* c.lower() for the characters it changes.
LowerMap ==
    LET up == UpperAlpha \o Latin1Upper
        lo == LowerAlpha \o Latin1Lower
    IN  [c \in CharsOf(up) |->
           LET k == CHOOSE k \in 1..Len(up) : SubSeq(up, k, k) = c
           IN  SubSeq(lo, k, k)]

\* c.lower() for one character.
LowerChar(c) == IF c \in DOMAIN LowerMap THEN LowerMap[c] ELSE c

\* str.lower(), one character at a time (the string is halved to keep the
\* evaluation shallow).
RECURSIVE ToLower(_)
ToLower(s) ==
    IF Len(s) = 0 THEN ""
    ELSE IF Len(s) = 1 THEN LowerChar(s)
    ELSE LET h == Len(s) \div 2
         IN  ToLower(SubSeq(s, 1, h)) \o ToLower(SubSeq(s, h + 1, Len(s)))

\* True iff the literal p occurs in s at position i (1-based).
LitAt(s, i, p) ==
    /\ i >= 1
    /\ i + Len(p) - 1 <= Len(s)
    /\ SubSeq(s, i, i + Len(p) - 1) = p

\* LitAt under re.IGNORECASE: p is given in lower case.
LitAtCI(s, i, p) ==
    /\ i >= 1
    /\ i + Len(p) - 1 <= Len(s)
    /\ ToLower(SubSeq(s, i, i + Len(p) - 1)) = p

\* str.startswith(p)
StartsWith(s, p) == LitAt(s, 1, p)

\* p in s
Contains(s, p) == \E i \in 1..(Len(s) + 1) : LitAt(s, i, p)

Min(S) == CHOOSE m \in S : \A n \in S : m <= n
Max(S) == CHOOSE m \in S : \A n \in S : n <= m

\* End (exclusive) of the maximal run of characters of set cs starting at i.
RECURSIVE RunEnd(_, _, _)
RunEnd(s, i, cs) ==
    IF i <= Len(s) /\ Char(s, i) \in cs THEN RunEnd(s, i + 1, cs) ELSE i

\* str.strip()
Strip(s) ==
    LET a == RunEnd(s, 1, SpaceSet)
        keep == { k \in 1..Len(s) : Char(s, k) \notin SpaceSet }
    IN  IF keep = {} THEN "" ELSE SubSeq(s, a, Max(keep))

\* The least position of hits that is at least i, 0 when there is none: where
\* a left-to-right regex scan resumed at i finds its next match.
NextHit(hits, i) ==
    LET later == { k \in hits : k >= i }
    IN  IF later = {} THEN 0 ELSE Min(later)

\* Starts of the maximal whitespace runs of s of at least minRun characters.
SpaceRunStarts(s, minRun) ==
    { k \in 1..Len(s) :
        /\ Char(s, k) \in SpaceSet
        /\ Char(s, k - 1) \notin SpaceSet
        /\ RunEnd(s, k, SpaceSet) - k >= minRun }

RECURSIVE SubSpaceRunsFrom(_, _, _)
SubSpaceRunsFrom(s, i, hits) ==
    LET k == NextHit(hits, i)
    IN  IF i > Len(s) THEN ""
        ELSE IF k = 0 THEN SubSeq(s, i, Len(s))
        ELSE SubSeq(s, i, k - 1) \o " "
               \o SubSpaceRunsFrom(s, RunEnd(s, k, SpaceSet), hits)

\* re.sub(r"\s{minRun,}", " ", s): every maximal whitespace run of at least
\* minRun characters becomes one space.
SubSpaceRuns(s, minRun) == SubSpaceRunsFrom(s, 1, SpaceRunStarts(s, minRun))

\* sep.join(items)
RECURSIVE Join(_, _)
Join(items, sep) ==
    IF items = << >> THEN ""
    ELSE IF Len(items) = 1 THEN items[1]
    ELSE items[1] \o sep \o Join(Tail(items), sep)

\* A slice bound of Python brought into 0..len: a negative bound counts from
\* the end, and every bound is clipped.
SliceBound(n, len) ==
    IF n < 0 THEN (IF n + len < 0 THEN 0 ELSE n + len)
    ELSE IF n > len THEN len ELSE n

\* seq[a:b] of Python for 0-based a and b: never raising.
PySlice(seq, a, b) ==
    LET lo == SliceBound(a, Len(seq))
        hi == SliceBound(b, Len(seq))
    IN  IF hi <= lo THEN << >> ELSE SubSeq(seq, lo + 1, hi)

\* [x for x in seq if keep(x)]
RECURSIVE NonEmptyOnly(_)
NonEmptyOnly(seq) ==
    IF seq = << >> THEN << >>
    ELSE IF Head(seq) = "" THEN NonEmptyOnly(Tail(seq))
    ELSE << Head(seq) >> \o NonEmptyOnly(Tail(seq))

(***************************************************************************)
(* Regex constants of the module                                           *)
(***************************************************************************)
REJECT_BOLD_PREFIXES ==
    { "directory of", "business activities", "email", "web site",
      "tel.no", "fax.no", "authorised capital", "paid up capital",
      "incorporation date", "no of employees", "management" }

\* \b between positions i-1 and i.
WordBoundary(s, i) == (Char(s, i - 1) \in WordSet) # (Char(s, i) \in WordSet)

\* CO_TAIL_RE.search(s) is not None
CO_TAIL_RE(s) ==
    \E i \in 1..Len(s) : \E a \in {"sdn bhd", "bhd", "berhad"} :
       /\ LitAtCI(s, i, a)
       /\ WordBoundary(s, i)
       /\ WordBoundary(s, i + Len(a))

\* Position after an optional single space at i.
OptSpace(s, i) == IF Char(s, i) = " " THEN i + 1 ELSE i

\* CO_NO_RE.match(s, i-1): the end (exclusive, 1-based) of the match of
\* \(Co\. ?No\. ?: ?([A-Z0-9\-]+)\) starting at i, 0 when there is none.
CO_NO_RE(s, i) ==
    LET p1 == OptSpace(s, i + 4)
        p2 == OptSpace(s, p1 + 3)
        p3 == OptSpace(s, p2 + 1)
        p4 == RunEnd(s, p3, LetterSet \cup DigitSet \cup {"-"})
    IN  IF /\ LitAtCI(s, i, "(co.")
           /\ LitAtCI(s, p1, "no.")
           /\ LitAt(s, p2, ":")
           /\ p4 > p3
           /\ Char(s, p4) = ")"
        THEN p4 + 1
        ELSE 0

\* CO_NO_RE.sub("", s) from position i on: the leftmost match is dropped
\* and the scan resumes after it.
RECURSIVE CoNoSubFrom(_, _, _)
CoNoSubFrom(s, i, hits) ==
    LET k == NextHit(hits, i)
    IN  IF i > Len(s) THEN ""
        ELSE IF k = 0 THEN SubSeq(s, i, Len(s))
        ELSE SubSeq(s, i, k - 1) \o CoNoSubFrom(s, CO_NO_RE(s, k), hits)

CoNoSub(s) == CoNoSubFrom(s, 1, { k \in 1..Len(s) : CO_NO_RE(s, k) > 0 })

\* txt.lower().startswith(REJECT_BOLD_PREFIXES)
StartsWithReject(s) ==
    \E p \in REJECT_BOLD_PREFIXES : LitAtCI(s, 1, p)

(***************************************************************************)
(* Phones / emails: TEL_LABEL_RE, PHONE_RE, EMAIL_BREAK_RE                 *)
(***************************************************************************)
\* Position after an optional "." at i.
OptDot(s, i) == IF Char(s, i) = "." THEN i + 1 ELSE i

\* End (exclusive) of the maximal run of characters outside cs starting at i.
RECURSIVE RunEndNot(_, _, _)
RunEndNot(s, i, cs) ==
    IF i <= Len(s) /\ Char(s, i) \notin cs THEN RunEndNot(s, i + 1, cs) ELSE i

\* TEL_LABEL_RE.match(s, i-1) for Tel\.?\s*No\.?\s*:\s*([^\n\r]+), IGNORECASE:
\* the span [from, to) of group 1, or from = 0 when there is no match.  The
\* \s* after the colon is greedy over every whitespace character, line
\* breaks included; when it runs to the end of the text it gives characters
\* back until group 1 can start on one that is not a line break.
TEL_LABEL_RE(s, i) ==
    LET a2 == OptDot(s, i + 3)
        a3 == RunEnd(s, a2, SpaceSet)
        a4 == OptDot(s, a3 + 2)
        a5 == RunEnd(s, a4, SpaceSet)
        w  == RunEnd(s, a5 + 1, SpaceSet)
        back == { k \in (a5 + 1)..Len(s) : Char(s, k) \notin NewlineSet }
        g  == IF w <= Len(s) THEN w
              ELSE IF back = {} THEN 0 ELSE Max(back)
    IN  IF /\ LitAtCI(s, i, "tel")
           /\ LitAtCI(s, a3, "no")
           /\ Char(s, a5) = ":"
           /\ g > 0
        THEN [from |-> g, to |-> RunEndNot(s, g, NewlineSet)]
        ELSE [from |-> 0, to |-> 0]

\* [m.group(1) for m in TEL_LABEL_RE.finditer(s)], scanning from i: the
\* leftmost match, then the scan resumes at its end.
RECURSIVE TelTailsFrom(_, _, _)
TelTailsFrom(s, i, hits) ==
    LET k == NextHit(hits, i)
        m == TEL_LABEL_RE(s, k)
    IN  IF k = 0 THEN << >>
        ELSE << SubSeq(s, m.from, m.to - 1) >> \o TelTailsFrom(s, m.to, hits)

TelTails(s) ==
    TelTailsFrom(s, 1, { k \in 1..Len(s) : TEL_LABEL_RE(s, k).from > 0 })

\* n digits at i .. i+n-1
DigitsAt(s, i, n) == \A k \in i..(i + n - 1) : Char(s, k) \in DigitSet

\* \d{5,8}\b from h, greedy: the longest count that leaves a word boundary.
PhoneSubEnd(s, h) ==
    LET ms == { m \in 5..8 : DigitsAt(s, h, m) /\ WordBoundary(s, h + m) }
    IN  IF ms = {} THEN 0 ELSE h + Max(ms)

\* -?\d{5,8}\b from a: the hyphen is taken first, then skipped.
PhoneHyphEnd(s, a) ==
    LET r == IF Char(s, a) = "-" THEN PhoneSubEnd(s, a + 1) ELSE 0
    IN  IF r > 0 THEN r ELSE PhoneSubEnd(s, a)

\* \d{2,3}-?\d{5,8}\b from p: three digits first, then two.
PhoneAreaEnd(s, p) ==
    LET r3 == IF DigitsAt(s, p, 3) THEN PhoneHyphEnd(s, p + 3) ELSE 0
    IN  IF r3 > 0 THEN r3
        ELSE IF DigitsAt(s, p, 2) THEN PhoneHyphEnd(s, p + 2) ELSE 0

\* 6?0 followed by the rest, from q: "6" taken first, then skipped.
PhoneCodeEnd(s, q) ==
    LET r6 == IF Char(s, q) = "6" /\ Char(s, q + 1) = "0"
              THEN PhoneAreaEnd(s, q + 2) ELSE 0
    IN  IF r6 > 0 THEN r6
        ELSE IF Char(s, q) = "0" THEN PhoneAreaEnd(s, q + 1) ELSE 0

\* PHONE_RE.match(s, i-1) for \b(?:\+?6?0)?\d{2,3}-?\d{5,8}\b: the end
\* (exclusive) of the first alternative that succeeds in backtracking order,
\* 0 when none does.
PHONE_RE(s, i) ==
    IF ~WordBoundary(s, i) THEN 0
    ELSE LET rp == IF Char(s, i) = "+" THEN PhoneCodeEnd(s, i + 1) ELSE 0
             rc == PhoneCodeEnd(s, i)
         IN  IF rp > 0 THEN rp
             ELSE IF rc > 0 THEN rc
             ELSE PhoneAreaEnd(s, i)

\* PHONE_RE.findall(s), scanning from i.
RECURSIVE PhonesFrom(_, _, _)
PhonesFrom(s, i, hits) ==
    LET k == NextHit(hits, i)
        e == PHONE_RE(s, k)
    IN  IF k = 0 THEN << >>
        ELSE << SubSeq(s, k, e - 1) >> \o PhonesFrom(s, e, hits)

PhoneFindAll(s) == PhonesFrom(s, 1, { k \in 1..Len(s) : PHONE_RE(s, k) > 0 })

LocalSet == LetterSet \cup DigitSet \cup {".", "_", "%", "+", "-"}
DomainSet == LetterSet \cup DigitSet \cup {".", "-"}

\* EMAIL_BREAK_RE.match(s, i-1): [to |-> end of the match (exclusive),
\* email |-> the address rebuilt from the groups], to = 0 when no match.
EMAIL_BREAK_RE(s, i) ==
    LET le   == RunEnd(s, i, LocalSet)
        at   == RunEnd(s, le, SpaceSet)
        b    == RunEnd(s, at + 1, SpaceSet)
        dmax == RunEnd(s, b, DomainSet)
        \* the dot and the TLD that follow a domain ending before d
        Dot(d)  == RunEnd(s, d, SpaceSet)
        Tld(d)  == RunEnd(s, Dot(d) + 1, SpaceSet)
        TldE(d) == RunEnd(s, Tld(d), LetterSet)
        ok   == { d \in (b + 1)..dmax :
                    Char(s, Dot(d)) = "." /\ TldE(d) - Tld(d) >= 2 }
        d    == Max(ok)
        f    == TldE(d)
        g    == RunEnd(s, f + 1, SpaceSet)
        h    == RunEnd(s, g, LetterSet)
        two  == Char(s, f) = "." /\ h - g >= 2
        base == SubSeq(s, i, le - 1) \o "@" \o SubSeq(s, b, d - 1) \o "."
                  \o SubSeq(s, Tld(d), f - 1)
    IN  IF le > i /\ Char(s, at) = "@" /\ ok # {}
        THEN IF two
             THEN [to |-> h, email |-> ToLower(base \o "." \o SubSeq(s, g, h - 1))]
             ELSE [to |-> f, email |-> ToLower(base)]
        ELSE [to |-> 0, email |-> ""]

\* The list built by the loop of normalize_emails, scanning from i.
RECURSIVE EmailsFrom(_, _, _)
EmailsFrom(s, i, hits) ==
    LET k == NextHit(hits, i)
        m == EMAIL_BREAK_RE(s, k)
    IN  IF k = 0 THEN << >>
        ELSE << m.email >> \o EmailsFrom(s, m.to, hits)

EmailMatches(s) ==
    EmailsFrom(s, 1, { k \in 1..Len(s) : EMAIL_BREAK_RE(s, k).to > 0 })

(***************************************************************************)
(* dedup_preserve_order                                                    *)
(***************************************************************************)
SeqElems(seq) == { seq[k] : k \in 1..Len(seq) }

\* The loop of dedup_preserve_order over items[k..], with out built so far
\* (seen is the set of elements of out).
\* Variant: an element is compared with the last one kept only.
RECURSIVE DedupLoop_LastOnly(_, _, _)
DedupLoop_LastOnly(items, k, out) ==
    IF k > Len(items) THEN out
    ELSE IF out = << >> \/ items[k] # out[Len(out)]
         THEN DedupLoop_LastOnly(items, k + 1, Append(out, items[k]))
         ELSE DedupLoop_LastOnly(items, k + 1, out)

RECURSIVE DedupLoop(_, _, _)
DedupLoop(items, k, out) ==
    IF k > Len(items) THEN out
    ELSE IF items[k] \notin SeqElems(out)
         THEN DedupLoop(items, k + 1, Append(out, items[k]))
         ELSE DedupLoop(items, k + 1, out)

dedup_preserve_order(items) == DedupLoop(items, 1, << >>)

RECURSIVE Flatten(_)
Flatten(seqs) ==
    IF seqs = << >> THEN << >> ELSE Head(seqs) \o Flatten(Tail(seqs))

\* normalize_emails(text)
normalize_emails(text) == dedup_preserve_order(EmailMatches(text))

\* [p for m in TEL_LABEL_RE.finditer(text) for p in PHONE_RE.findall(m.group(1))]
RECURSIVE PhonesOfTails(_)
PhonesOfTails(tails) ==
    IF tails = << >> THEN << >>
    ELSE PhoneFindAll(Head(tails)) \o PhonesOfTails(Tail(tails))

LabelledPhones(text) == PhonesOfTails(TelTails(text))

\* extract_contacts_from_block(block_text)
extract_contacts_from_block(block_text) ==
    [phones |-> dedup_preserve_order(LabelledPhones(block_text)),
     emails |-> normalize_emails(block_text)]

\* extract_management_stub()
extract_management_stub == << >>

(***************************************************************************)
(* Layout flattener                                                        *)
(***************************************************************************)
\* is_bold_span(span): font and weight hold the defaults "" and 0 when the
\* layout provider gives none.
is_bold_span(f) ==
    \/ Contains(ToLower(f.font), "bold")
    \/ (f.weight # 0 /\ f.weight >= 700)

\* re.sub(r"\s+", " ", s.get("text", "")).strip()
CleanText(f) == Strip(SubSpaceRuns(f.text, 1))

\* The lines of every block of type 0, in document order.
RECURSIVE TextLines(_)
TextLines(bs) ==
    IF bs = << >> THEN << >>
    ELSE IF Head(bs).type # 0 THEN TextLines(Tail(bs))
    ELSE Head(bs).lines \o TextLines(Tail(bs))

\* Variant: the counter starts at 0.
LineNoOf_FromOne(k) == k

\* line_no of the k-th line met (k = 1, 2, ...): the counter starts at -1 and
\* is incremented before the line's fragments are read.
LineNoOf(k) == k - 1

\* The spans one line contributes: its fragments with non-empty clean text.
RECURSIVE LineSpans(_, _)
LineSpans(frags, n) ==
    IF frags = << >> THEN << >>
    ELSE LET t == CleanText(Head(frags))
         IN  IF t = "" THEN LineSpans(Tail(frags), n)
             ELSE << [text |-> t, is_bold |-> is_bold_span(Head(frags)),
                      line_no |-> n] >> \o LineSpans(Tail(frags), n)

SpanTexts(sps) == [k \in 1..Len(sps) |-> sps[k].text]

\* " ".join(acc_line).strip()
LineText(frags) == Strip(Join(SpanTexts(LineSpans(frags, 0)), " "))

RECURSIVE SpansOfLines(_, _)
SpansOfLines(ls, k) ==
    IF k > Len(ls) THEN << >>
    ELSE LineSpans(ls[k], LineNoOf(k)) \o SpansOfLines(ls, k + 1)

\* get_flat_spans_with_lines(page)
get_flat_spans_with_lines(pg) ==
    LET ls == TextLines(pg)
    IN  [spans |-> SpansOfLines(ls, 1),
         lines |-> [k \in 1..Len(ls) |-> LineText(ls[k])]]

(***************************************************************************)
(* Header detector                                                         *)
(***************************************************************************)
\* A value that is None or an int (last_idx, the index of a header) is a
\* sequence: None is the empty one, the int k is << k >>.
None == << >>
Some(k) == << k >>
Val(x) == x[1]

\* len(clean) <= 120
MaxNameLen == 120

\* CO_TAIL_RE.search(joined) or "(Co. No." in joined
IsCompany(joined) == CO_TAIL_RE(joined) \/ Contains(joined, "(Co. No.")

\* Variant: the double spaces left by the removed annotation are kept.
CleanName_NoCollapse(joined) == Strip(CoNoSub(joined))

\* clean = CO_NO_RE.sub("", joined).strip(); clean = re.sub(r"\s{2,}", " ", clean)
CleanName(joined) == SubSpaceRuns(Strip(CoNoSub(joined)), 2)

\* Variant: the joined text is not tested against the rejection prefixes.
flush_if_company_NoRejectCheck(st) ==
    IF st.buf = << >> THEN st
    ELSE LET joined == Strip(Join(st.buf, " "))
             clean  == CleanName(joined)
         IN  IF IsCompany(joined) /\ clean # "" /\ Len(clean) <= MaxNameLen
             THEN [buf |-> << >>, last_idx |-> None,
                   results |-> Append(st.results,
                                      [name |-> clean, idx |-> st.last_idx])]
             ELSE [buf |-> << >>, last_idx |-> None, results |-> st.results]

\* flush_if_company() on the closure state st = [buf, last_idx, results].
flush_if_company(st) ==
    IF st.buf = << >> THEN st
    ELSE LET joined == Strip(Join(st.buf, " "))
             clean  == CleanName(joined)
         IN  IF StartsWithReject(joined)
             THEN [buf |-> << >>, last_idx |-> None, results |-> st.results]
             ELSE IF IsCompany(joined) /\ clean # "" /\ Len(clean) <= MaxNameLen
             THEN [buf |-> << >>, last_idx |-> None,
                   results |-> Append(st.results,
                                      [name |-> clean, idx |-> st.last_idx])]
             ELSE [buf |-> << >>, last_idx |-> None, results |-> st.results]

\* The flush condition after a bold span is buffered:
\* CO_TAIL_RE.search(" ".join(buf)) or "(Co. No." in txt
FlushAfterAppend(newbuf, txt) ==
    CO_TAIL_RE(Join(newbuf, " ")) \/ Contains(txt, "(Co. No.")

\* Variant: no candidate is dropped.
DedupHeaders_KeepAll(res, k, out) == res

\* Variant: the last candidate of a name is kept instead of the first.
RECURSIVE DedupHeaders_KeepLast(_, _, _)
DedupHeaders_KeepLast(res, k, out) ==
    IF k > Len(res) THEN out
    ELSE IF \E n \in (k + 1)..Len(res) : res[n].name = res[k].name
         THEN DedupHeaders_KeepLast(res, k + 1, out)
         ELSE DedupHeaders_KeepLast(res, k + 1, Append(out, res[k]))

\* The de-duplication loop that ends extract_headers_from_bold.
RECURSIVE DedupHeaders(_, _, _)
DedupHeaders(res, k, out) ==
    IF k > Len(res) THEN out
    ELSE IF res[k].name \notin { out[j].name : j \in 1..Len(out) }
         THEN DedupHeaders(res, k + 1, Append(out, res[k]))
         ELSE DedupHeaders(res, k + 1, out)

(***************************************************************************)
(* Block slicer                                                            *)
(***************************************************************************)
\* The 1-based position of spans[n] for an int n that does not raise: a
\* negative n counts from the end.
PyIndex(n, sps) == IF n < 0 THEN n + Len(sps) + 1 ELSE n + 1

\* spans[idx] raises: TypeError for None, IndexError for an int outside
\* -len(spans)..len(spans)-1.
BadIndex(idx, sps) ==
    idx = None \/ Val(idx) < -Len(sps) \/ Val(idx) >= Len(sps)

\* start_line = spans[end_idx]["line_no"] + 1 if end_idx is not None else 0
StartLine(hs, k, sps) ==
    IF hs[k].idx # None THEN sps[PyIndex(Val(hs[k].idx), sps)].line_no + 1
    ELSE 0

\* Variant: the block stops one line early.
StopLine_Short(hs, k, sps, ls) ==
    IF k < Len(hs) THEN sps[PyIndex(Val(hs[k + 1].idx), sps)].line_no - 2
    ELSE Len(ls) - 2

\* stop_line before the clamp, for the k-th header (1-based).
StopLine(hs, k, sps, ls) ==
    IF k < Len(hs) THEN sps[PyIndex(Val(hs[k + 1].idx), sps)].line_no - 1
    ELSE Len(ls) - 1

\* if stop_line < start_line: stop_line = start_line
ClampStop(start_line, stop_line) ==
    IF stop_line < start_line THEN start_line ELSE stop_line

\* True iff an iteration of the loop of slice_company_blocks raises.
SliceRaises(hs, sps) ==
    \E k \in 1..Len(hs) :
        \/ hs[k].idx # None /\ BadIndex(hs[k].idx, sps)
        \/ k < Len(hs) /\ BadIndex(hs[k + 1].idx, sps)

\* One iteration of the loop: the range and the (name, block_text) pair.
SliceOne(hs, k, sps, ls) ==
    LET start_line == StartLine(hs, k, sps)
        stop_line  == ClampStop(start_line, StopLine(hs, k, sps, ls))
        block_lines == NonEmptyOnly(PySlice(ls, start_line, stop_line + 1))
    IN  [name |-> hs[k].name, text |-> Join(block_lines, "\n"),
         start_line |-> start_line, stop_line |-> stop_line]

\* slice_company_blocks(headers, spans, lines), with the line range of each
\* block kept beside it.
slice_company_blocks(hs, sps, ls) ==
    [k \in 1..Len(hs) |-> SliceOne(hs, k, sps, ls)]

(***************************************************************************)
(* Inputs                                                                  *)
(***************************************************************************)
MaxFrags == 3
MaxBlocks == 3
MaxItems == 4
MaxTextLines == 2

SeqsUpTo(S, n) == UNION { [1..m -> S] : m \in 0..n }

\* Styled fragments as the layout provider gives them.
Bold(t)  == [text |-> t, font |-> "Arial-BoldMT", weight |-> 400]
Heavy(t) == [text |-> t, font |-> "Arial", weight |-> 700]
Plain(t) == [text |-> t, font |-> "Arial", weight |-> 0]

\* Fragments that exercise the header detector.
HeaderFrags ==
    { Bold("ACME"), Bold("SDN  BHD"), Heavy("(Co. No.: 123456-A)"),
      Bold("ACME (Co."), Bold("No.: 123456-A)"),
      Bold("Management BERHAD"), Heavy("Web"), Bold("Site Sdn Bhd"),
      Plain("Tel No.: 03-12345678") }

HdrA == Bold("\fACME SDN\tBHD ")
HdrB == Heavy("BÉTA BERHAD")
Body1 == Plain("Tel No.: 03-12345678, 03-12345678")
Body2 == Plain("Email: info @ acme.com INFO@ACME.COM")
Blank == Plain("  ")

\* Layout blocks that exercise the slicer: an image block, company entries,
\* two headers on one line, a blank line, a header alone on its line.
LayoutBlocks ==
    { [type |-> 1, lines |-> << >>],
      [type |-> 0, lines |-> << <<HdrA>>, <<Body1>> >>],
      [type |-> 0, lines |-> << <<HdrB>>, <<Body1>>, <<Body2>> >>],
      [type |-> 0, lines |-> << <<HdrA, HdrB>> >>],
      [type |-> 0, lines |-> << <<Blank>>, <<Body2>> >>],
      [type |-> 0, lines |-> << <<HdrA>> >>] }

HeaderPages ==
    { << [type |-> 0, lines |-> [k \in 1..Len(fs) |-> << fs[k] >>]] >> :
        fs \in SeqsUpTo(HeaderFrags, MaxFrags) }

LayoutPages == SeqsUpTo(LayoutBlocks, MaxBlocks)

Pages == HeaderPages \cup LayoutPages

ItemSeqs == SeqsUpTo({"a", "b", "c"}, MaxItems)

\* Non-empty, stripped lines as slice_company_blocks joins them.
ContactLines ==
    { "Tel No.: 03-12345678, 019-8765432",
      "some.person @ example . com",
      "Tel No.:",
      "03-12345678",
      "Fax No.: 03-7654321",
      "TEL.NO : +60312345678 / 03-12345678 Sales@Acme.com.my sales@acme.com.my" }

BlockTexts == { Join(ls, "\n") : ls \in SeqsUpTo(ContactLines, MaxTextLines) }

(***************************************************************************)
(* State                                                                   *)
(***************************************************************************)
VARIABLES
    pc,          \* position of the run
    page,        \* page.get_text("dict")["blocks"]
    spans,       \* spans of get_flat_spans_with_lines
    lines,       \* lines of get_flat_spans_with_lines
    i,           \* loop index of extract_headers_from_bold (0-based)
    buf,         \* buf of extract_headers_from_bold
    last_idx,    \* last_idx of extract_headers_from_bold
    results,     \* results of extract_headers_from_bold
    headers,     \* headers in main
    blocks,      \* blocks in main, each with its start_line and stop_line
    j,           \* number of blocks main has turned into records
    records,     \* records in main
    rollup,      \* what main prints for the page
    items,       \* argument of a direct call of dedup_preserve_order
    deduped,     \* its result
    block_text,  \* argument of a direct call of extract_contacts_from_block
    contacts     \* its result

vars == << pc, page, spans, lines, i, buf, last_idx, results, headers,
           blocks, j, records, rollup, items, deduped, block_text, contacts >>

NoContacts == [phones |-> << >>, emails |-> << >>]
NoRollup == [companies |-> << >>, emails |-> << >>, phones |-> << >>,
             management |-> << >>]

Blank_ ==
    /\ spans = << >> /\ lines = << >> /\ i = 0 /\ buf = << >>
    /\ last_idx = None /\ results = << >> /\ headers = << >>
    /\ blocks = << >> /\ j = 0 /\ records = << >> /\ rollup = NoRollup
    /\ deduped = << >> /\ contacts = NoContacts

\* A page handed to the pipeline of main.
InitPage ==
    /\ pc = "flatten" /\ page \in Pages
    /\ items = << >> /\ block_text = "" /\ Blank_

\* A direct call of dedup_preserve_order.
InitDedup ==
    /\ pc = "dedup" /\ items \in ItemSeqs
    /\ page = << >> /\ block_text = "" /\ Blank_

\* A direct call of extract_contacts_from_block.
InitContacts ==
    /\ pc = "contacts" /\ block_text \in BlockTexts
    /\ page = << >> /\ items = << >> /\ Blank_

Init == InitPage \/ InitDedup \/ InitContacts

(***************************************************************************)
(* Actions                                                                 *)
(***************************************************************************)
\* spans, lines = get_flat_spans_with_lines(page)
FlattenPage ==
    /\ pc = "flatten"
    /\ LET r == get_flat_spans_with_lines(page)
       IN  spans' = r.spans /\ lines' = r.lines
    /\ pc' = "scan"
    /\ UNCHANGED << page, i, buf, last_idx, results, headers, blocks, j,
                    records, rollup, items, deduped, block_text, contacts >>

ScanState == [buf |-> buf, last_idx |-> last_idx, results |-> results]

SetScan(st) ==
    /\ buf' = st.buf /\ last_idx' = st.last_idx /\ results' = st.results

ScanRest ==
    UNCHANGED << pc, page, spans, lines, headers, blocks, j, records, rollup,
                 items, deduped, block_text, contacts >>

\* Variant: the buffer is dropped without being flushed.
ScanRejected_Discard ==
    /\ pc = "scan" /\ i < Len(spans)
    /\ spans[i + 1].is_bold
    /\ StartsWithReject(spans[i + 1].text)
    /\ SetScan([buf |-> << >>, last_idx |-> None, results |-> results])
    /\ i' = i + 1
    /\ ScanRest

\* Loop body, bold span whose text starts with a rejection prefix.
ScanRejected ==
    /\ pc = "scan" /\ i < Len(spans)
    /\ spans[i + 1].is_bold
    /\ StartsWithReject(spans[i + 1].text)
    /\ SetScan(flush_if_company(ScanState))
    /\ i' = i + 1
    /\ ScanRest

\* Loop body, any other bold span.
ScanBold ==
    /\ pc = "scan" /\ i < Len(spans)
    /\ spans[i + 1].is_bold
    /\ ~StartsWithReject(spans[i + 1].text)
    /\ LET txt == spans[i + 1].text
           st  == [buf |-> Append(buf, txt), last_idx |-> Some(i),
                   results |-> results]
       IN  IF FlushAfterAppend(st.buf, txt)
           THEN SetScan(flush_if_company(st))
           ELSE SetScan(st)
    /\ i' = i + 1
    /\ ScanRest

\* Loop body, span that is not bold.
ScanNonBold ==
    /\ pc = "scan" /\ i < Len(spans)
    /\ ~spans[i + 1].is_bold
    /\ SetScan(flush_if_company(ScanState))
    /\ i' = i + 1
    /\ ScanRest

\* After the loop: the final flush, the de-duplication by name, the return.
FinishHeaders ==
    /\ pc = "scan" /\ i = Len(spans)
    /\ LET st == flush_if_company(ScanState)
       IN  /\ SetScan(st)
           /\ headers' = DedupHeaders(st.results, 1, << >>)
    /\ pc' = "slice"
    /\ UNCHANGED << page, spans, lines, i, blocks, j, records, rollup,
                    items, deduped, block_text, contacts >>

\* blocks = slice_company_blocks(headers, spans, lines)
SliceBlocks ==
    /\ pc = "slice"
    /\ IF SliceRaises(headers, spans)
       THEN pc' = "raised" /\ UNCHANGED blocks
       ELSE pc' = "records"
            /\ blocks' = slice_company_blocks(headers, spans, lines)
    /\ UNCHANGED << page, spans, lines, i, buf, last_idx, results, headers,
                    j, records, rollup, items, deduped, block_text, contacts >>

\* One iteration of "for name, block_text in blocks" in main.
MakeRecord ==
    /\ pc = "records" /\ j < Len(blocks)
    /\ LET c == extract_contacts_from_block(blocks[j + 1].text)
       IN  records' = Append(records,
                             [company |-> blocks[j + 1].name,
                              emails |-> c.emails, phones |-> c.phones,
                              management |-> extract_management_stub])
    /\ j' = j + 1
    /\ UNCHANGED << pc, page, spans, lines, i, buf, last_idx, results,
                    headers, blocks, rollup, items, deduped, block_text,
                    contacts >>

Field(recs, f) == [k \in 1..Len(recs) |-> recs[k][f]]

\* The page report printed by main.
PrintPage ==
    /\ pc = "records" /\ j = Len(blocks)
    /\ rollup' =
         [companies |-> Field(records, "company"),
          emails |-> dedup_preserve_order(Flatten(Field(records, "emails"))),
          phones |-> dedup_preserve_order(Flatten(Field(records, "phones"))),
          management |->
              dedup_preserve_order(Flatten(Field(records, "management")))]
    /\ pc' = "done"
    /\ UNCHANGED << page, spans, lines, i, buf, last_idx, results, headers,
                    blocks, j, records, items, deduped, block_text, contacts >>

\* deduped = dedup_preserve_order(items)
CallDedup ==
    /\ pc = "dedup"
    /\ deduped' = dedup_preserve_order(items)
    /\ pc' = "dedup_done"
    /\ UNCHANGED << page, spans, lines, i, buf, last_idx, results, headers,
                    blocks, j, records, rollup, items, block_text, contacts >>

\* contacts = extract_contacts_from_block(block_text)
CallContacts ==
    /\ pc = "contacts"
    /\ contacts' = extract_contacts_from_block(block_text)
    /\ pc' = "contacts_done"
    /\ UNCHANGED << page, spans, lines, i, buf, last_idx, results, headers,
                    blocks, j, records, rollup, items, deduped, block_text >>

Next ==
    \/ FlattenPage
    \/ ScanRejected
    \/ ScanBold
    \/ ScanNonBold
    \/ FinishHeaders
    \/ SliceBlocks
    \/ MakeRecord
    \/ PrintPage
    \/ CallDedup
    \/ CallContacts

Spec == Init /\ [][Next]_vars

(***************************************************************************)
(* Vocabulary of the properties                                            *)
(***************************************************************************)
Sliced == pc \in {"records", "done"}
Detected == pc \in {"slice", "records", "done", "raised"}
Flattened == pc \in {"scan", "slice", "records", "done", "raised"}

\* Line of the terminating span of a header or header candidate.
LineOf(h) == spans[Val(h.idx) + 1].line_no

\* The pieces of s between occurrences of the one-character separator c.
RECURSIVE SplitOn(_, _)
SplitOn(s, c) ==
    LET k == RunEndNot(s, 1, {c})
    IN  IF k > Len(s) THEN << s >>
        ELSE << SubSeq(s, 1, k - 1) >> \o SplitOn(SubSeq(s, k + 1, Len(s)), c)

\* The lines of a block text ("" has none).
TextLinesOf(text) == IF text = "" THEN << >> ELSE SplitOn(text, "\n")

RECURSIVE IsSubseq(_, _)
IsSubseq(a, b) ==
    IF a = << >> THEN TRUE
    ELSE IF b = << >> THEN FALSE
    ELSE IF Head(a) = Head(b) THEN IsSubseq(Tail(a), Tail(b))
    ELSE IsSubseq(a, Tail(b))

NonEmptyStr(x) == x # ""

NoDup(seq) == \A a, b \in 1..Len(seq) : a # b => seq[a] # seq[b]

FirstIndex(seq, x) == Min({ k \in 1..Len(seq) : seq[k] = x })

\* out holds exactly the distinct elements of seq, each once, in the order of
\* their first occurrences in seq.
IsFirstSeenOrder(out, seq) ==
    /\ NoDup(out)
    /\ SeqElems(out) = SeqElems(seq)
    /\ \A a, b \in 1..Len(out) :
          a < b => FirstIndex(seq, out[a]) < FirstIndex(seq, out[b])

\* C1: the line ranges [start_line, stop_line] of the blocks of two different
\* headers share no page line, also when the headers sit on one line or on
\* adjacent lines and the inverted range is clamped.
C1_RangesDisjoint ==
    Sliced =>
      \A a, b \in 1..Len(blocks) :
        a < b =>
          ~ \E n \in 0..(Len(lines) - 1) :
               /\ blocks[a].start_line <= n /\ n <= blocks[a].stop_line
               /\ blocks[b].start_line <= n /\ n <= blocks[b].stop_line

\* The non-empty page lines strictly after the line of header k and strictly
\* before the line of the next header (up to the last page line for the final
\* header), in line order.
LinesOwnedBy(k) ==
    LET lo == LineOf(headers[k]) + 1
        hi == IF k < Len(headers) THEN LineOf(headers[k + 1]) - 1
              ELSE Len(lines) - 1
    IN  IF hi < lo THEN << >>
        ELSE SelectSeq(SubSeq(lines, lo + 1, hi + 1), NonEmptyStr)

\* C2: every non-empty line between the line of a header and the line of the
\* next header (or the page end) appears in that header's block text, in line
\* order; only empty lines are left out.
C2_BlocksExhaustLines ==
    Sliced =>
      /\ Len(blocks) = Len(headers)
      /\ \A k \in 1..Len(headers) :
            IsSubseq(LinesOwnedBy(k), TextLinesOf(blocks[k].text))

\* A block that owns two or more lines and whose range skips an empty line.
C2_Witness ==
    /\ pc = "done"
    /\ \E k \in 1..Len(headers) :
          /\ k < Len(headers)
          /\ Len(LinesOwnedBy(k)) >= 2
          /\ TextLinesOf(blocks[k].text) = LinesOwnedBy(k)
          /\ \E n \in (LineOf(headers[k]) + 1)..(LineOf(headers[k + 1]) - 1) :
                lines[n + 1] = ""

\* C3: the header list is unique by name, each header is the first candidate
\* with its name (with that candidate's own span index), every candidate name
\* is kept once, and the terminating span indices strictly increase.
C3_HeadersUniqueOrdered ==
    Detected =>
      /\ \A a, b \in 1..Len(headers) :
            a < b => /\ headers[a].name # headers[b].name
                     /\ Val(headers[a].idx) < Val(headers[b].idx)
      /\ \A k \in 1..Len(headers) :
            \E m \in 1..Len(results) :
               /\ results[m] = headers[k]
               /\ \A n \in 1..(m - 1) : results[n].name # headers[k].name
      /\ \A m \in 1..Len(results) :
            \E k \in 1..Len(headers) : headers[k].name = results[m].name

\* Two headers kept and one later candidate dropped as a duplicate.
C3_Witness ==
    /\ pc = "slice"
    /\ Len(headers) >= 2
    /\ Len(results) > Len(headers)

\* The span the header loop is about to read.
Scanning == pc = "scan" /\ i < Len(spans)
Cur == spans[i + 1]
RejectedSpan == Scanning /\ Cur.is_bold /\ StartsWithReject(Cur.text)
BufferedSpan == Scanning /\ Cur.is_bold /\ ~StartsWithReject(Cur.text)

\* The buffer a flush of this step would see, and its space-joined text.
RunNow == IF BufferedSpan THEN Append(buf, Cur.text) ELSE buf
RunText == Join(RunNow, " ")

\* A word that closes a registration annotation: an id of [A-Z0-9-]+ and ")".
IsAnnotationId(w) ==
    /\ Len(w) >= 2
    /\ Char(w, Len(w)) = ")"
    /\ RunEnd(w, 1, LetterSet \cup DigitSet \cup {"-"}) = Len(w)

\* The words of a run without the words of its annotations "(Co. No.: id)".
RECURSIVE DropAnnotations(_)
DropAnnotations(ws) ==
    IF ws = << >> THEN << >>
    ELSE IF Len(ws) >= 3 /\ ws[1] = "(Co." /\ ws[2] = "No.:"
            /\ IsAnnotationId(ws[3])
         THEN DropAnnotations(SubSeq(ws, 4, Len(ws)))
         ELSE << ws[1] >> \o DropAnnotations(Tail(ws))

\* The single-space-joined text of a run with its annotations stripped.
ExpectedName(text) ==
    Join(SelectSeq(DropAnnotations(SplitOn(text, " ")), NonEmptyStr), " ")

HasAnnotation(name) ==
    \/ Contains(name, "(Co. No.")
    \/ \E k \in 1..Len(name) : CO_NO_RE(name, k) > 0

\* C4: a bold span that starts with a rejection prefix is never put in the
\* buffer and never terminates a header, and a buffer whose joined text starts
\* with a rejection prefix is never recorded as a header.
C4_RejectedNeverHeader ==
    [][ /\ \A k \in 1..Len(buf') : ~StartsWithReject(buf'[k])
        /\ RejectedSpan =>
              \A m \in 1..Len(results') : results'[m].idx # Some(i)
        /\ (pc = "scan" /\ results' # results) => ~StartsWithReject(RunText)
      ]_vars

\* "Web" and "Site Sdn Bhd" were buffered and dropped (joined they start with
\* "web site"), then a rejected bold span that holds a suffix was read: no
\* header.
C4_Witness ==
    /\ pc = "scan" /\ i = 3 /\ results = << >> /\ buf = << >>
    /\ \A k \in 1..3 : spans[k].is_bold
    /\ ~StartsWithReject(spans[1].text) /\ ~StartsWithReject(spans[2].text)
    /\ StartsWithReject(spans[1].text \o " " \o spans[2].text)
    /\ CO_TAIL_RE(spans[2].text)
    /\ StartsWithReject(spans[3].text) /\ CO_TAIL_RE(spans[3].text)

\* C5: when the span just buffered completes a legal-entity suffix, or holds
\* the registration annotation that follows the run, and the run does not
\* start with a rejection prefix, a header is recorded whose name is the
\* single-space-joined run with the annotation stripped (if that is non-empty
\* and at most 120 characters) and whose index is the index of that span; the
\* first candidate of each name is in the returned list.
C5_RunBecomesHeader ==
    [][ /\ ( /\ BufferedSpan
             /\ CO_TAIL_RE(RunText) \/ Contains(Cur.text, "(Co. No.")
             /\ ~StartsWithReject(RunText)
             /\ ExpectedName(RunText) # ""
             /\ Len(ExpectedName(RunText)) <= 120 )
           => /\ results' = Append(results, [name |-> ExpectedName(RunText),
                                             idx |-> Some(i)])
              /\ ~HasAnnotation(ExpectedName(RunText))
        /\ (pc = "scan" /\ pc' = "slice")
           => \A m \in 1..Len(results') :
                 (\A n \in 1..(m - 1) : results'[n].name # results'[m].name)
                    => \E k \in 1..Len(headers') : headers'[k] = results'[m]
      ]_vars

\* "ACME (Co.", "No.: 123456-A)", "SDN  BHD": the third span completes the
\* suffix and the header is the run without the annotation.
C5_Witness ==
    /\ pc = "slice"
    /\ Len(spans) = 3
    /\ spans[2].text = "No.: 123456-A)"
    /\ headers = << [name |-> "ACME SDN BHD", idx |-> Some(2)] >>

\* C10 as stated: a rejected bold span discards the buffer, whatever it
\* holds, without recording a header.
C10_RejectedDiscards ==
    [][ RejectedSpan => /\ results' = results
                        /\ buf' = << >>
                        /\ i' = i + 1 ]_vars

\* The buffer holds a registration annotation (split over spans) that makes
\* it a company at the flush.
BufferIsCompany ==
    /\ buf # << >>
    /\ Contains(Join(buf, " "), "(Co. No.")
    /\ ~StartsWithReject(Join(buf, " "))
    /\ ExpectedName(Join(buf, " ")) # ""
    /\ Len(ExpectedName(Join(buf, " "))) <= 120

\* C10 amended: a rejected bold span flushes the buffer by the ordinary rule:
\* a buffer that holds a registration annotation is recorded as a header with
\* the index of its last span, any other buffer is discarded; the rejected
\* span is not buffered and the scan goes on with an empty buffer.
C10_RejectedFlushes ==
    [][ RejectedSpan =>
          /\ buf' = << >> /\ last_idx' = None /\ i' = i + 1
          /\ results' =
               IF BufferIsCompany
               THEN Append(results, [name |-> ExpectedName(Join(buf, " ")),
                                     idx |-> last_idx])
               ELSE results
      ]_vars

\* "ACME (Co.", "No.: 123456-A)" buffered, then a rejected bold span: the
\* header ACME is recorded with index 1.
C10_Witness ==
    /\ pc = "scan" /\ i = 3 /\ buf = << >>
    /\ spans[3].is_bold /\ StartsWithReject(spans[3].text)
    /\ results = << [name |-> "ACME", idx |-> Some(1)] >>

\* A header k and a later candidate m of the same name.
IsDuplicateOf(m, k) ==
    /\ results[m].name = headers[k].name
    /\ results[m] # headers[k]

OneBlockPerHeader ==
    /\ \A a, b \in 1..Len(headers) : a # b => headers[a].name # headers[b].name
    /\ Len(blocks) = Len(headers)
    /\ \A k \in 1..Len(headers) : blocks[k].name = headers[k].name
    /\ Len(records) = j
    /\ \A k \in 1..Len(records) : records[k].company = headers[k].name
    /\ pc = "done" => Len(records) = Len(headers)
    /\ \A k \in 1..Len(headers) : \A m \in 1..Len(results) :
          IsDuplicateOf(m, k) => Val(headers[k].idx) < Val(results[m].idx)

\* No two headers end on the same line: no block range overlaps another.
HeadersOnDistinctLines ==
    \A a, b \in 1..Len(headers) :
       a < b => LineOf(headers[a]) < LineOf(headers[b])

\* C6 as stated: of two detections of one name only the first is a header,
\* with one block and one record per header, and the first header's block
\* reaches the position of the duplicate (taken on the pages whose headers
\* lie on distinct lines).
C6_BlockReachesDuplicate ==
    Sliced =>
      /\ OneBlockPerHeader
      /\ HeadersOnDistinctLines =>
            \A k \in 1..Len(headers) : \A m \in 1..Len(results) :
               IsDuplicateOf(m, k)
                  => blocks[k].stop_line >= LineOf(results[m]) - 1

NoHeaderBetween(k, m) ==
    ~ \E h \in 1..Len(headers) :
         Val(headers[k].idx) < Val(headers[h].idx)
         /\ Val(headers[h].idx) < Val(results[m].idx)

\* C6 amended: the same, the block of the first header reaching the position
\* of the duplicate when no other header lies between the two.
C6_BlockReachesDuplicateIfNext ==
    Sliced =>
      /\ OneBlockPerHeader
      /\ \A k \in 1..Len(headers) : \A m \in 1..Len(results) :
            (IsDuplicateOf(m, k) /\ NoHeaderBetween(k, m))
               => blocks[k].stop_line >= LineOf(results[m]) - 1

\* A duplicate on a later line, no header between, another header after it:
\* the first header's block runs over the duplicate's line.
C6_Witness ==
    /\ pc = "done"
    /\ \E k \in 1..Len(headers) : \E m \in 1..Len(results) :
          /\ IsDuplicateOf(m, k) /\ NoHeaderBetween(k, m)
          /\ k < Len(headers)
          /\ LineOf(results[m]) > LineOf(headers[k])
          /\ blocks[k].stop_line >= LineOf(results[m])

\* C7: the pipeline never raises: span line indices are valid indices into
\* lines, header indices are non-null and valid indices into spans, and the
\* slicer is never brought to index out of bounds.
C7_NeverRaises ==
    /\ pc # "raised"
    /\ Flattened =>
          \A k \in 1..Len(spans) :
             spans[k].line_no >= 0 /\ spans[k].line_no < Len(lines)
    /\ Detected =>
          \A k \in 1..Len(headers) :
             /\ headers[k].idx # None
             /\ Val(headers[k].idx) >= 0 /\ Val(headers[k].idx) < Len(spans)
    /\ Sliced => Len(blocks) = Len(headers)

\* The page is done and its last header sits on the last page line.
C7_Witness ==
    /\ pc = "done"
    /\ headers # << >>
    /\ LineOf(headers[Len(headers)]) = Len(lines) - 1
    /\ blocks[Len(blocks)].start_line = Len(lines)
    /\ Len(records) = Len(headers)

\* C8: dedup_preserve_order returns the distinct elements in first-seen order
\* and is idempotent; record phones and emails and the page rollups have no
\* duplicates and keep first-seen order.
C8_DedupFirstSeen ==
    /\ pc = "dedup_done" =>
          /\ IsFirstSeenOrder(deduped, items)
          /\ dedup_preserve_order(deduped) = deduped
    /\ Sliced =>
          \A k \in 1..Len(records) :
             /\ IsFirstSeenOrder(records[k].phones,
                                 LabelledPhones(blocks[k].text))
             /\ IsFirstSeenOrder(records[k].emails,
                                 EmailMatches(blocks[k].text))
    /\ pc = "done" =>
          /\ IsFirstSeenOrder(rollup.emails, Flatten(Field(records, "emails")))
          /\ IsFirstSeenOrder(rollup.phones, Flatten(Field(records, "phones")))
          /\ NoDup(rollup.management)
          /\ dedup_preserve_order(rollup.phones) = rollup.phones

\* An input with a repeated element between two distinct ones was deduplicated.
C8_Witness ==
    /\ pc = "dedup_done"
    /\ Len(deduped) >= 2
    /\ Len(items) > Len(deduped)
    /\ items[Len(items)] = items[1]

\* End (exclusive) of a telephone label 'Tel' '.'? 'No' '.'? ':' starting at
\* i in one line, 0 when there is none.
TelLabelEnd(line, k) ==
    LET a2 == OptDot(line, k + 3)
        a3 == RunEnd(line, a2, {" ", "\t"})
        a4 == OptDot(line, a3 + 2)
        a5 == RunEnd(line, a4, {" ", "\t"})
    IN  IF LitAtCI(line, k, "tel") /\ LitAtCI(line, a3, "no")
           /\ Char(line, a5) = ":"
        THEN a5 + 1 ELSE 0

\* The phone-shaped substrings of one line after its first telephone label.
PhonesAfterLabel(line) ==
    LET ks == { k \in 1..Len(line) : TelLabelEnd(line, k) > 0 }
    IN  IF ks = {} THEN << >>
        ELSE PhoneFindAll(SubSeq(line, TelLabelEnd(line, Min(ks)), Len(line)))

RECURSIVE PhonesAfterLabels(_)
PhonesAfterLabels(ls) ==
    IF ls = << >> THEN << >>
    ELSE PhonesAfterLabel(Head(ls)) \o PhonesAfterLabels(Tail(ls))

\* C9: the phones are exactly the phone-shaped substrings between a telephone
\* label and the end of its line, in order, first occurrences only (nothing
\* from a line without a label before it), and the worked example gives the
\* two phones and the one email.
C9_PhonesOnLabelledLines ==
    pc = "contacts_done" =>
      /\ IsFirstSeenOrder(contacts.phones,
                          PhonesAfterLabels(TextLinesOf(block_text)))
      /\ block_text =
           "Tel No.: 03-12345678, 019-8765432\nsome.person @ example . com"
           => contacts = [phones |-> << "03-12345678", "019-8765432" >>,
                          emails |-> << "some.person@example.com" >>]

====
